---- MODULE Spec2Model ----
(***************************************************************************)
(* A model of RefrigeratorSim: the Refrigerator thermal model              *)
(* (refrigerator.py) and the Simulator control loop (simulator.py).        *)
(*                                                                         *)
(* Units.  Temperatures are held in twelfths of a degree Fahrenheit, so    *)
(* that WARMING_RATE = 5/60 deg/min is 1 unit/min and COOLING_RATE =       *)
(* -10/60 deg/min is -2 units/min and every temperature the program can    *)
(* compute is an integer.  Emissions are held in units of 1e-8 lbs, the    *)
(* precision _lbs_co2_from_moer rounds to.  Historical averages are exact  *)
(* fractions <<numerator, denominator>> in lowest terms.  The program      *)
(* computes all of these in binary floating point; the model computes them *)
(* exactly.                                                                *)
(***************************************************************************)
EXTENDS Integers, Sequences, FiniteSets, TLC

VARIABLES
    np_moer_vector,                 \* self.np_moer_vector / self.data["MOER"]
    hist_avg_moer_at_time,          \* self.data['hist_avg_moer_at_time']
    number_timesteps_to_process,    \* self.number_timesteps_to_process
    fridge,                         \* self.fridge
    historicals,                    \* self.historicals
    total_lbs_co2,                  \* self.total_lbs_co2
    current_time,                   \* self.current_time
    outfile,                        \* self.outfile: the handle and what was written to it
                                    \* (the number of rows, the last row, and the sum of
                                    \* the lbs_co2 column: what a reader totals from it)
    pc,                             \* position of the caller: "idle", or "running" inside run()
    flags,                          \* run()'s keyword arguments
    timestep,                       \* run()'s loop variable
    result,                         \* how the last call of run() ended
    tiers,                          \* the tiers that acted in the last iteration executed
    lp_status                       \* the solver status of that iteration's solve

vars == <<np_moer_vector, hist_avg_moer_at_time, number_timesteps_to_process, fridge,
          historicals, total_lbs_co2, current_time, outfile, pc, flags, timestep,
          result, tiers, lp_status>>

---------------------------------------------------------------------------
(* Bounds of the model *)

\* number of rows of the data table
DataLen == 37
\* the signal column repeats a pattern of this length
PatLen == 2
\* signal values are 0..MaxMoer
MaxMoer == 1
\* horizon lengths tried when the optimizer is exercised on its own: 1 .. MaxHorizon
MaxHorizon == 18
\* number of rows of the short tables
ShortLen == 3
\* length of the longer signal patterns
LongPatLen == 4
\* whole days of data in the tables that span more than a day
Days == 1
\* whole days of data in the tables the historical tracker is followed over
TrackDays == 3
\* whole days of data in the tables on which the extended optimizer is exercised
ExtDays == 7

---------------------------------------------------------------------------
(* Refrigerator *)

TempUnit == 12
MAX_TEMP == 43 * TempUnit
MIN_TEMP == 33 * TempUnit
WATTAGE == 200
WARMING_RATE == 1
COOLING_RATE == -2

Refrigerator == [on |-> FALSE, current_temp |-> MIN_TEMP, current_timestamp |-> 0]

_current_rate_temp_change(f) == IF f.on THEN COOLING_RATE ELSE WARMING_RATE

\* a projection that measures the elapsed time from 0, not from the last commit
expected_temp_FromZero(f, timestamp) ==
    f.current_temp + (timestamp * _current_rate_temp_change(f))

expected_temp(f, timestamp) ==
    LET elapsed == timestamp - f.current_timestamp
    IN  f.current_temp + (elapsed * _current_rate_temp_change(f))

\* a turn_on that also restarts the device at the coldest temperature
turn_on_ResetsTemp(f) == [f EXCEPT !.on = TRUE, !.current_temp = MIN_TEMP]

turn_on(f) == [f EXCEPT !.on = TRUE]

turn_off(f) == [f EXCEPT !.on = FALSE]

---------------------------------------------------------------------------
(* Arithmetic helpers *)

Min(a, b) == IF a <= b THEN a ELSE b

RECURSIVE GCD(_, _)
GCD(a, b) == IF b = 0 THEN a ELSE GCD(b, a % b)

LCM(a, b) == (a * b) \div GCD(a, b)

\* a fraction in lowest terms; denominators are positive, numerators non-negative
Frac(n, d) == LET g == GCD(n, d) IN IF n = 0 THEN <<0, 1>> ELSE <<n \div g, d \div g>>

\* round(a / b) for a >= 0, b > 0
Round(a, b) == (2 * a + b) \div (2 * b)

\* Python's s[a:b] on a sequence, 0-based, clipped to the sequence
Slice(s, a, b) == SubSeq(s, a + 1, Min(b, Len(s)))

---------------------------------------------------------------------------
(* Simulator: constants and the data table *)

mins_per_timestep == 5
lookahead_window == 60 \div mins_per_timestep
timesteps_per_day == 288
max_hist_lookahead == 6

\* _add_synthetic_fields_to_dataframe: hhmm of the row's timestamp.  The rows are
\* consecutive 5-minute steps, so rows a day apart share an identifier; the
\* identifier is held as the row's position in its day.
timeslotID(row) == row % timesteps_per_day

MoerValues == 0 .. MaxMoer

\* lengths of the data table read by the constructor: one of DataLen rows, and one
\* that is a lookahead window shorter
DataLens == {DataLen - lookahead_window, DataLen}

\* the signal column of len rows made by repeating pattern p, the pattern starting
\* one place later on every following day (so that a time of day sees several values)
MoerColumn(p, len) ==
    [i \in 1 .. len |-> p[(((i - 1) + ((i - 1) \div timesteps_per_day)) % Len(p)) + 1]]

\* lengths of the tables that span more than a day: Days days and two lookahead
\* windows
DayLens == {Days * timesteps_per_day + 2 * lookahead_window}

\* the empty historical avg column
EmptyHistColumn(len) == [i \in 1 .. len |-> <<0, 1>>]

---------------------------------------------------------------------------
(* Simulator._get_output_filename *)

\* Strings are held as sequences of characters, so that the strip methods can be
\* modelled by what they do to them.

\* str.lstrip(chars): leading characters that occur in chars are removed
RECURSIVE lstrip(_, _)
lstrip(s, chars) ==
    IF s # <<>> /\ (\E i \in 1 .. Len(chars) : chars[i] = Head(s))
    THEN lstrip(Tail(s), chars)
    ELSE s

\* str.rstrip(chars): trailing characters that occur in chars are removed
RECURSIVE rstrip(_, _)
rstrip(s, chars) ==
    IF s # <<>> /\ (\E i \in 1 .. Len(chars) : chars[i] = s[Len(s)])
    THEN rstrip(SubSeq(s, 1, Len(s) - 1), chars)
    ELSE s

\* refrigerator_sim.py: "./output_data/"
output_dir == <<".", "/", "o", "u", "t", "p", "u", "t", "_", "d", "a", "t", "a", "/">>

\* a filename that leaves the "_hist" suffix out
_get_output_filename_NoHist(use_zeroes, use_forecast, use_hist) ==
    LET s1 == IF use_zeroes THEN <<"_", "z", "e", "r", "o", "e", "s">> ELSE <<>>
        s2 == s1 \o (IF use_forecast THEN <<"_", "f", "o", "r", "e", "c", "a", "s", "t">> ELSE <<>>)
        output_suffix == IF s2 = <<>> THEN <<"_", "n", "o", "_", "d", "a", "t", "a">> ELSE s2
    IN  rstrip(output_dir, <<"/">>) \o <<"/">> \o <<"s", "i", "m", "_", "o", "u", "t", "p", "u", "t">> \o output_suffix \o <<".", "c", "s", "v">>

_get_output_filename(use_zeroes, use_forecast, use_hist) ==
    LET s1 == IF use_zeroes THEN <<"_", "z", "e", "r", "o", "e", "s">> ELSE <<>>
        s2 == s1 \o (IF use_forecast THEN <<"_", "f", "o", "r", "e", "c", "a", "s", "t">> ELSE <<>>)
        s3 == s2 \o (IF use_hist THEN <<"_", "h", "i", "s", "t">> ELSE <<>>)
        output_suffix == IF s3 = <<>> THEN <<"_", "n", "o", "_", "d", "a", "t", "a">> ELSE s3
    IN  rstrip(output_dir, <<"/">>) \o <<"/">> \o <<"s", "i", "m", "_", "o", "u", "t", "p", "u", "t">> \o output_suffix \o <<".", "c", "s", "v">>

---------------------------------------------------------------------------
(* Visualizer.plot: where the plot of a run is saved *)

\* line 26
sim_id(path_to_data) ==
    lstrip(rstrip(lstrip(path_to_data, output_dir), <<".", "c", "s", "v">>), <<"/", "s", "i", "m", "_", "o", "u", "t", "p", "u", "t", "_">>)

\* line 78: the argument of fig.savefig
PlotPath(path_to_data) ==
    rstrip(output_dir, <<"/">>) \o <<"/">> \o <<"p", "l", "o", "t", "s", "_">> \o sim_id(path_to_data) \o <<".", "p", "d", "f">>

---------------------------------------------------------------------------
(* Simulator._get_next_decision_with_lp *)

\* the temperature constraint of the problem: t[i+1] as a function of t[i] and s[i]
LpNextTemp(t, s) ==
    t + COOLING_RATE * mins_per_timestep * s + WARMING_RATE * mins_per_timestep * (1 - s)

\* the two bound constraints with their comparisons exchanged
LpInBounds_Swapped(t) == t >= MAX_TEMP /\ t <= MIN_TEMP

\* lines 143-144
LpInBounds(t) == t <= MAX_TEMP /\ t >= MIN_TEMP

\* t[i] (1-based) when k of s[1..i-1] are 1: LpNextTemp applied i-1 times from t0
LpTempAt(t0, i, k) ==
    t0 + COOLING_RATE * mins_per_timestep * k + WARMING_RATE * mins_per_timestep * (i - 1 - k)

\* the cost of "no assignment satisfies the constraints" (the weights are >= 0)
NoCost == 0 - 1

LpMin(a, b) == IF a = NoCost THEN b ELSE IF b = NoCost THEN a ELSE Min(a, b)

LpAdd(a, b) == IF b = NoCost THEN NoCost ELSE a + b

\* The least objective over s[i..n] (1-based), for each number k = 0..i-1 of ones among
\* s[1..i-1] (entry k+1), NoCost when no assignment satisfies the constraints from
\* there.  The loop of lines 139-144 constrains t[i+1] for every i but the last, so the
\* last status variable is free.
RECURSIVE LpCostToGo(_, _, _)
LpCostToGo(w, t0, i) ==
    LET n == Len(w)
        next == IF i < n THEN LpCostToGo(w, t0, i + 1) ELSE <<>>
        via(k, s) == IF LpInBounds(LpNextTemp(LpTempAt(t0, i, k), s))
                     THEN LpAdd(s * w[i], next[k + s + 1])
                     ELSE NoCost
        cell(k) == IF i = n THEN Min(0, w[n]) ELSE LpMin(via(k, 0), via(k, 1))
    IN  SubSeq([j \in 1 .. i |-> cell(j - 1)], 1, i)

\* the least objective with s[1] fixed to s, togo being LpCostToGo(w, t, 2)
LpBestWith(w, t, s, togo) ==
    IF Len(w) = 1 THEN s * w[1]
    ELSE IF LpInBounds(LpNextTemp(t, s))
         THEN LpAdd(s * w[1], togo[s + 1])
         ELSE NoCost

\* The solve: the status, and the values s_0 may hold afterwards.  An optimal solve
\* leaves the s_0 of some optimal assignment (which one, when several are optimal, is
\* the solver's choice); after an infeasible solve s_0 holds whatever the solver left.
LpSolve(w, t) ==
    LET togo == IF Len(w) > 1 THEN LpCostToGo(w, t, 2) ELSE <<>>
        c0 == LpBestWith(w, t, 0, togo)
        c1 == LpBestWith(w, t, 1, togo)
        best == LpMin(c0, c1)
    IN  IF best = NoCost
        THEN [status |-> "Infeasible", s_0 |-> {0, 1}]
        ELSE [status |-> "Optimal",
              s_0 |-> {s \in {0, 1} : best = (IF s = 0 THEN c0 ELSE c1)}]

\* the objective's coefficients as integers: the fractions times their common denominator
RECURSIVE CommonDen(_, _)
CommonDen(v, i) == IF i > Len(v) THEN 1 ELSE LCM(v[i][2], CommonDen(v, i + 1))

IntWeights(v) ==
    LET d == CommonDen(v, 1)
    IN  SubSeq([i \in 1 .. Len(v) |-> v[i][1] * (d \div v[i][2])], 1, Len(v))

\* an extension window without the cap of line 121
ForecastVector_Uncapped(moer, hist_col, hist, start_timestep, use_historicals) ==
    LET moer_vector == Slice(moer, start_timestep, start_timestep + lookahead_window)
        raw == [i \in 1 .. Len(moer_vector) |-> <<moer_vector[i], 1>>]
        slot == timeslotID(start_timestep)
        num_datapoints_in_avg == IF slot \in DOMAIN hist THEN hist[slot][2] ELSE 0
        moer_vector_hist_avg ==
            Slice(hist_col, start_timestep + lookahead_window,
                  start_timestep + lookahead_window + num_datapoints_in_avg)
    IN  IF use_historicals THEN raw \o moer_vector_hist_avg ELSE raw

\* lines 110-126: the forecast window, extended by historical averages
ForecastVector(moer, hist_col, hist, start_timestep, use_historicals) ==
    LET moer_vector == Slice(moer, start_timestep, start_timestep + lookahead_window)
        raw == [i \in 1 .. Len(moer_vector) |-> <<moer_vector[i], 1>>]
        slot == timeslotID(start_timestep)
        num_datapoints_in_avg == IF slot \in DOMAIN hist THEN hist[slot][2] ELSE 0
        hist_lookahead_window == Min(num_datapoints_in_avg, max_hist_lookahead)
        moer_vector_hist_avg ==
            Slice(hist_col, start_timestep + lookahead_window,
                  start_timestep + lookahead_window + hist_lookahead_window)
    IN  IF use_historicals THEN raw \o moer_vector_hist_avg ELSE raw

_get_next_decision_with_lp(moer, hist_col, hist, f, start_timestep, use_historicals) ==
    LpSolve(IntWeights(ForecastVector(moer, hist_col, hist, start_timestep, use_historicals)),
            f.current_temp)

---------------------------------------------------------------------------
(* Simulator._lbs_co2_from_moer, in units of 1e-8 lbs *)

_lbs_co2_from_moer(moer) ==
    \* round(moer * (WATTAGE / 1000000) * (mins_per_timestep / 60), 8)
    Round(moer * WATTAGE * mins_per_timestep * 100, 60)

\* round(self.fridge.current_temp, 2), in hundredths of a degree
RoundedTemp(t) == Round(t * 100, TempUnit)

---------------------------------------------------------------------------
(* Simulator._update_historical_avgs *)

\* an update that does not weight the old average by its count
UpdatedAvg_Unweighted(hist, slot, moer) ==
    IF slot \in DOMAIN hist
    THEN LET old_avg == hist[slot][1]
             count == hist[slot][2]
         IN  <<Frac(old_avg[1] + moer * old_avg[2], old_avg[2] * (count + 1)), count + 1>>
    ELSE <<Frac(moer, 1), 1>>

\* lines 202-212: the (avg, count) of the slot after moer is incorporated
UpdatedAvg(hist, slot, moer) ==
    IF slot \in DOMAIN hist
    THEN LET old_avg == hist[slot][1]
             count == hist[slot][2]
         IN  <<Frac(count * old_avg[1] + moer * old_avg[2], old_avg[2] * (count + 1)),
               count + 1>>
    ELSE <<Frac(moer, 1), 1>>

UpdatedHistoricals(hist, slot, moer) ==
    [s \in DOMAIN hist \cup {slot} |-> IF s = slot THEN UpdatedAvg(hist, slot, moer) ELSE hist[s]]

\* a write-ahead of the average the slot had before this step's signal
UpdatedHistColumn_StaleAvg(col, hist, ts, moer, n) ==
    LET next_corresponding_timeslot == ts + timesteps_per_day
    IN  IF next_corresponding_timeslot < n
        THEN [col EXCEPT ![next_corresponding_timeslot + 1] =
                             IF timeslotID(ts) \in DOMAIN hist
                             THEN hist[timeslotID(ts)][1]
                             ELSE <<0, 1>>]
        ELSE col

\* a write-ahead that lands one row early
UpdatedHistColumn_OneRowEarly(col, hist, ts, moer, n) ==
    LET next_corresponding_timeslot == ts + timesteps_per_day - 1
    IN  IF next_corresponding_timeslot < n
        THEN [col EXCEPT ![next_corresponding_timeslot + 1] =
                             UpdatedAvg(hist, timeslotID(ts), moer)[1]]
        ELSE col

\* lines 217-220: the average is written to the next row of the same time of day
UpdatedHistColumn(col, hist, ts, moer, n) ==
    LET next_corresponding_timeslot == ts + timesteps_per_day
    IN  IF next_corresponding_timeslot < n
        THEN [col EXCEPT ![next_corresponding_timeslot + 1] =
                             UpdatedAvg(hist, timeslotID(ts), moer)[1]]
        ELSE col

---------------------------------------------------------------------------
(* Simulator.run *)

Flags == [use_zeroes : BOOLEAN, use_forecast : BOOLEAN, use_hist : BOOLEAN]

NoFlags == [use_zeroes |-> FALSE, use_forecast |-> FALSE, use_hist |-> FALSE]

\* before the first run the simulator has no outfile attribute
NoRow == [time |-> 0, fridge_temp |-> 0, fridge_on |-> FALSE, moer |-> 0, lbs_co2 |-> 0,
          avg_moer_at_time |-> <<0, 1>>]

NoOutfile == [name |-> <<>>, closed |-> TRUE, nrows |-> 0, last_row |-> NoRow, lbs_co2_sum |-> 0]

\* self.outfile.write of one row
WriteRow(file, row) ==
    [file EXCEPT !.nrows = @ + 1, !.last_row = row, !.lbs_co2_sum = @ + row.lbs_co2]

NoHistoricals == [s \in {} |-> <<>>]

\* what the last call of run() returned: nothing yet, an exception, or a filename
NoResult == <<>>

Raised == <<"Exception">>

\* the check of line 40 with its second test inverted
ConfigError_Inverted(use_forecast, use_hist) == use_hist /\ use_forecast

\* line 40
ConfigError(use_forecast, use_hist) == use_hist /\ ~use_forecast

\* lines 52-53: the zero-signal tier decides this step
ZeroTierApplies(use_zeroes, moer) == use_zeroes /\ moer = 0

\* a zero-signal tier that leaves the device as it is when it is not too cold
ZeroTierDecision_KeepsStatus(f, expected) ==
    IF expected > MIN_TEMP THEN f ELSE turn_off(f)

\* lines 54-57
ZeroTierDecision(f, expected) ==
    IF expected > MIN_TEMP THEN turn_on(f) ELSE turn_off(f)

\* line 60 without its "and not made_decision"
ForecastTierApplies_Always(use_forecast, made_decision) == use_forecast

\* line 60
ForecastTierApplies(use_forecast, made_decision) == use_forecast /\ ~made_decision

\* lines 62-65
ForecastTierDecision(f, decision) ==
    IF decision = 0 THEN turn_off(f) ELSE turn_on(f)

\* line 68
NaiveTierApplies(made_decision) == ~made_decision

\* a naive tier that never forces the device on
NaiveTierDecision_NoMax(f, expected) ==
    IF expected <= MIN_TEMP THEN turn_off(f) ELSE f

\* lines 69-72
NaiveTierDecision(f, expected) ==
    IF expected <= MIN_TEMP THEN turn_off(f)
    ELSE IF expected >= MAX_TEMP THEN turn_on(f)
    ELSE f

\* lines 230-233 without the test of self.fridge.on
EmissionsThisStep_AlwaysOn(f, moer) == _lbs_co2_from_moer(moer)

\* lines 230-233
EmissionsThisStep(f, moer) == IF ~f.on THEN 0 ELSE _lbs_co2_from_moer(moer)

\* lines 229-240: the row written for this timestep
OutputRow(ts, f, time, moer, hist_col) ==
    [time |-> time,
     fridge_temp |-> RoundedTemp(f.current_temp),
     fridge_on |-> f.on,
     moer |-> moer,
     lbs_co2 |-> EmissionsThisStep(f, moer),
     avg_moer_at_time |-> hist_col[ts + 1]]

\* a loop that stops one timestep early
InLoop_OneShort(ts, n) == ts < n - 1

\* line 47: range(self.number_timesteps_to_process) has another timestep
InLoop(ts, n) == ts < n

\* lines 78-80: the device after the step is committed
Committed(f, time) ==
    [f EXCEPT !.current_temp = expected_temp(f, time + mins_per_timestep),
              !.current_timestamp = time + mins_per_timestep]

\* a reset that forgets the cumulative total
_prepare_new_simulation_KeepsTotal(output_filename) ==
    /\ fridge' = Refrigerator
    /\ historicals' = NoHistoricals
    /\ current_time' = 0
    /\ total_lbs_co2' = total_lbs_co2
    /\ hist_avg_moer_at_time' = EmptyHistColumn(Len(hist_avg_moer_at_time))
    /\ outfile' = [name |-> output_filename, closed |-> FALSE, nrows |-> 0,
                   last_row |-> NoRow, lbs_co2_sum |-> 0]

\* lines 185-192 (the header line of the file is not counted among its rows)
_prepare_new_simulation(output_filename) ==
    /\ fridge' = Refrigerator
    /\ historicals' = NoHistoricals
    /\ current_time' = 0
    /\ total_lbs_co2' = 0
    /\ hist_avg_moer_at_time' = EmptyHistColumn(Len(hist_avg_moer_at_time))
    /\ outfile' = [name |-> output_filename, closed |-> FALSE, nrows |-> 0,
                   last_row |-> NoRow, lbs_co2_sum |-> 0]

Init ==
    /\ \E p \in [1 .. PatLen -> MoerValues], len \in DataLens :
           np_moer_vector = MoerColumn(p, len)
    /\ number_timesteps_to_process \in {Len(np_moer_vector) - 1, Len(np_moer_vector)}
    /\ hist_avg_moer_at_time = EmptyHistColumn(Len(np_moer_vector))
    /\ fridge = Refrigerator
    /\ historicals = NoHistoricals
    /\ total_lbs_co2 = 0
    /\ current_time = 0
    /\ outfile = NoOutfile
    /\ pc = "idle"
    /\ flags = NoFlags
    /\ timestep = 0
    /\ result = NoResult
    /\ tiers = {}
    /\ lp_status = "NotSolved"

\* run() called with a configuration that line 40 rejects
RunRaise(f) ==
    /\ pc = "idle"
    /\ ConfigError(f.use_forecast, f.use_hist)
    /\ flags' = f
    /\ result' = Raised
    /\ UNCHANGED <<np_moer_vector, hist_avg_moer_at_time, number_timesteps_to_process,
                   fridge, historicals, total_lbs_co2, current_time, outfile, pc,
                   timestep, tiers, lp_status>>

\* run() called: lines 40-45
RunStart(f) ==
    /\ pc = "idle"
    /\ ~ConfigError(f.use_forecast, f.use_hist)
    /\ _prepare_new_simulation(_get_output_filename(f.use_zeroes, f.use_forecast, f.use_hist))
    /\ pc' = "running"
    /\ flags' = f
    /\ timestep' = 0
    /\ result' = NoResult
    /\ UNCHANGED <<np_moer_vector, number_timesteps_to_process, tiers, lp_status>>

\* one iteration of the loop of lines 47-83
Step ==
    /\ pc = "running"
    /\ InLoop(timestep, number_timesteps_to_process)
    /\ LET expected == expected_temp(fridge, current_time + mins_per_timestep)
           moer == np_moer_vector[timestep + 1]
           zero == ZeroTierApplies(flags.use_zeroes, moer)
           f1 == IF zero THEN ZeroTierDecision(fridge, expected) ELSE fridge
           lp == ForecastTierApplies(flags.use_forecast, zero)
           solve == _get_next_decision_with_lp(np_moer_vector, hist_avg_moer_at_time,
                                               historicals, fridge, timestep, flags.use_hist)
           naive == NaiveTierApplies(zero \/ lp)
       IN  \E decision \in (IF lp THEN solve.s_0 ELSE {0}) :
             LET f2 == IF lp THEN ForecastTierDecision(f1, decision) ELSE f1
                 f3 == IF naive THEN NaiveTierDecision(f2, expected) ELSE f2
                 row == OutputRow(timestep, f3, current_time, moer, hist_avg_moer_at_time)
             IN  /\ tiers' = {t \in {"zero", "forecast", "naive"} :
                                  \/ t = "zero" /\ zero
                                  \/ t = "forecast" /\ lp
                                  \/ t = "naive" /\ naive}
                 /\ lp_status' = IF lp THEN solve.status ELSE "NotSolved"
                 /\ total_lbs_co2' = total_lbs_co2 + EmissionsThisStep(f3, moer)
                 /\ outfile' = WriteRow(outfile, row)
                 /\ fridge' = Committed(f3, current_time)
                 /\ current_time' = current_time + mins_per_timestep
                 /\ historicals' = UpdatedHistoricals(historicals, timeslotID(timestep), moer)
                 /\ hist_avg_moer_at_time' =
                        UpdatedHistColumn(hist_avg_moer_at_time, historicals, timestep, moer,
                                          number_timesteps_to_process)
                 /\ timestep' = timestep + 1
    /\ UNCHANGED <<np_moer_vector, number_timesteps_to_process, pc, flags, result>>

\* lines 85-90: the loop is over
Finish ==
    /\ pc = "running"
    /\ ~InLoop(timestep, number_timesteps_to_process)
    /\ outfile' = [outfile EXCEPT !.closed = TRUE]
    /\ result' = outfile.name
    /\ pc' = "idle"
    /\ UNCHANGED <<np_moer_vector, hist_avg_moer_at_time, number_timesteps_to_process,
                   fridge, historicals, total_lbs_co2, current_time, flags, timestep,
                   tiers, lp_status>>

Next ==
    \/ \E f \in Flags : RunRaise(f)
    \/ \E f \in Flags : RunStart(f)
    \/ Step
    \/ Finish

Spec == Init /\ [][Next]_vars

\* Weak fairness of Step, WF_vars(Step), with ENABLED <<Step>>_vars written out: Step
\* can be taken exactly when run() is in its loop and the loop has another timestep
\* (every conjunct of Step below its first two can be satisfied, and Step changes
\* timestep).
StepFairness ==
    \/ []<>(~(pc = "running" /\ InLoop(timestep, number_timesteps_to_process)))
    \/ []<><<Step>>_vars

\* run() is one synchronous loop: an iteration that can be taken is taken, and the
\* code after the loop runs once the loop is over.
FairSpec == Spec /\ StepFairness /\ WF_vars(Finish)

---------------------------------------------------------------------------
(* The optimizer on its own: _get_next_decision_with_lp's problem for every current
   temperature within the bounds and every forecast vector of 1 .. MaxHorizon values *)

InitLp ==
    /\ \E n \in 1 .. MaxHorizon : \E p \in [1 .. PatLen -> MoerValues] :
           np_moer_vector = MoerColumn(p, n)
    /\ \E t \in MIN_TEMP .. MAX_TEMP : fridge = [Refrigerator EXCEPT !.current_temp = t]
    /\ number_timesteps_to_process = 0
    /\ hist_avg_moer_at_time = <<>>
    /\ historicals = NoHistoricals
    /\ total_lbs_co2 = 0
    /\ current_time = 0
    /\ outfile = NoOutfile
    /\ pc = "lp"
    /\ flags = [NoFlags EXCEPT !.use_forecast = TRUE]
    /\ timestep = 0
    /\ result = NoResult
    /\ tiers = {}
    /\ lp_status = "NotSolved"

\* lines 128-149 on the forecast vector np_moer_vector
SolveLp ==
    /\ pc = "lp"
    /\ lp_status = "NotSolved"
    /\ LET solve == LpSolve(np_moer_vector, fridge.current_temp)
       IN  /\ lp_status' = solve.status
           /\ \E decision \in solve.s_0 : fridge' = ForecastTierDecision(fridge, decision)
    /\ tiers' = {"forecast"}
    /\ UNCHANGED <<np_moer_vector, hist_avg_moer_at_time, number_timesteps_to_process,
                   historicals, total_lbs_co2, current_time, outfile, pc, flags, timestep,
                   result>>

NextLp == SolveLp

SpecLp == InitLp /\ [][NextLp]_vars

---------------------------------------------------------------------------
(* Runs over data that spans more than a day, where times of day recur *)

\* a simulator constructed over a table of one of the lengths lens whose signal
\* repeats one of the patterns (as Init is over DataLens and the patterns of PatLen
\* values)
Constructed(patterns, lens) ==
    /\ \E p \in patterns, len \in lens : np_moer_vector = MoerColumn(p, len)
    /\ number_timesteps_to_process \in {Len(np_moer_vector) - 1, Len(np_moer_vector)}
    /\ hist_avg_moer_at_time = EmptyHistColumn(Len(np_moer_vector))
    /\ fridge = Refrigerator
    /\ historicals = NoHistoricals
    /\ total_lbs_co2 = 0
    /\ current_time = 0
    /\ outfile = NoOutfile
    /\ pc = "idle"
    /\ flags = NoFlags
    /\ timestep = 0
    /\ result = NoResult
    /\ tiers = {}
    /\ lp_status = "NotSolved"

InitDay == Constructed([1 .. PatLen -> MoerValues], DayLens)

\* the configurations run over these tables: no data, the zero tier alone, and the
\* forecast extended by the historical averages
DayFlags == {NoFlags,
             [NoFlags EXCEPT !.use_zeroes = TRUE],
             [NoFlags EXCEPT !.use_forecast = TRUE, !.use_hist = TRUE]}

NextDay ==
    \/ \E f \in Flags : RunRaise(f)
    \/ \E f \in DayFlags : RunStart(f)
    \/ Step
    \/ Finish

SpecDay == InitDay /\ [][NextDay]_vars

---------------------------------------------------------------------------
(* Runs over several days of data, without the optimizer: the historical tracker sees
   every time of day more than twice *)

\* lengths of these tables: TrackDays days and one row
TrackLens == {TrackDays * timesteps_per_day + 1}

InitTrack == Constructed([1 .. PatLen -> MoerValues], TrackLens)

TrackFlags == {NoFlags, [NoFlags EXCEPT !.use_zeroes = TRUE]}

NextTrack ==
    \/ \E f \in Flags : RunRaise(f)
    \/ \E f \in TrackFlags : RunStart(f)
    \/ Step
    \/ Finish

SpecTrack == InitTrack /\ [][NextTrack]_vars

---------------------------------------------------------------------------
(* Runs over signals with longer patterns, where the device warms for several steps
   between two steps of zero signal *)

InitLong == Constructed([1 .. LongPatLen -> MoerValues], {DataLen - lookahead_window})

SpecLong == InitLong /\ [][Next]_vars

---------------------------------------------------------------------------
(* Runs over tables of a few rows *)

InitShort == Constructed([1 .. PatLen -> MoerValues], {ShortLen})

SpecShort == InitShort /\ [][Next]_vars

---------------------------------------------------------------------------
(* Claims *)

TempInBounds(t) == MIN_TEMP <= t /\ t <= MAX_TEMP

\* the forecast tier is about to solve in this state
SolvesNow ==
    /\ pc = "running"
    /\ InLoop(timestep, number_timesteps_to_process)
    /\ ForecastTierApplies(flags.use_forecast,
                           ZeroTierApplies(flags.use_zeroes, np_moer_vector[timestep + 1]))

\* and its problem has no feasible assignment
InfeasibleNow ==
    /\ SolvesNow
    /\ _get_next_decision_with_lp(np_moer_vector, hist_avg_moer_at_time, historicals,
                                  fridge, timestep, flags.use_hist).status = "Infeasible"

\* C1: in a run with use_zeroes = False and use_forecast = False the temperature
\* committed after every step lies within [MIN_TEMP, MAX_TEMP].
C1_NaiveKeepsBounds ==
    flags = NoFlags => TempInBounds(fridge.current_temp)

\* C1 witness: the naive tier has forced the device off at the lower threshold, after
\* having forced it on at the upper one.
C1_Witness ==
    /\ flags = NoFlags
    /\ pc = "running"
    /\ tiers = {"naive"}
    /\ ~fridge.on
    /\ outfile.last_row.fridge_temp < RoundedTemp(MIN_TEMP + 10)
    /\ timestep > lookahead_window

\* C2: in a run with use_forecast = True and use_zeroes = False the temperature
\* committed after every step lies within [MIN_TEMP, MAX_TEMP], the last rows of the
\* data included.
C2_ForecastKeepsBounds ==
    (flags.use_forecast /\ ~flags.use_zeroes) => TempInBounds(fridge.current_temp)

\* C3: whenever the zero-signal tier turns the device on, the temperature committed at
\* the end of that step is not below MIN_TEMP.
C3_ZeroTierBoundSafe ==
    (pc = "running" /\ timestep > 0 /\ "zero" \in tiers /\ fridge.on)
        => fridge.current_temp >= MIN_TEMP

\* C4: whenever the horizon problem of a step has no feasible assignment, the run
\* aborts at that step with an error: no status is set, no temperature is committed
\* and no output record is written.
C4_InfeasibilityIsFatal ==
    [][InfeasibleNow => /\ pc' = "idle"
                        /\ result' = Raised
                        /\ fridge' = fridge
                        /\ outfile' = outfile]_vars

\* C5: for every horizon length, every forecast vector and every current temperature
\* within [MIN_TEMP, MAX_TEMP] the horizon problem has a feasible assignment.
C5_FeasibleWithinBounds ==
    (pc = "lp" /\ TempInBounds(fridge.current_temp)) => lp_status # "Infeasible"

\* C5 witness: a problem over the longest horizon was solved from the upper bound.
C5_Witness ==
    /\ pc = "lp"
    /\ lp_status = "Optimal"
    /\ Len(np_moer_vector) = MaxHorizon
    /\ fridge.current_temp = MAX_TEMP
    /\ fridge.on

\* C6: run(use_hist=True, use_forecast=False) raises before the run starts and leaves
\* the device, the historical table and column, the total, the clock and the output
\* file as they were; no step is processed.
C6_ConfigErrorFailsFast ==
    [][(pc = "idle" /\ flags'.use_hist /\ ~flags'.use_forecast)
         => /\ result' = Raised
            /\ pc' = "idle"
            /\ UNCHANGED <<fridge, historicals, hist_avg_moer_at_time, total_lbs_co2,
                           current_time, outfile, timestep>>]_vars

\* C6 witness: the call was rejected on a simulator that an earlier run had used.
C6_Witness ==
    /\ pc = "idle"
    /\ result = Raised
    /\ flags.use_hist /\ ~flags.use_forecast
    /\ outfile.closed
    /\ outfile.nrows = number_timesteps_to_process
    /\ total_lbs_co2 > 0
    /\ fridge.current_temp # MIN_TEMP

C8_AccumulatorMatchesLog ==
    /\ total_lbs_co2 = outfile.lbs_co2_sum
    /\ outfile.nrows > 0 =>
           outfile.last_row.lbs_co2 = IF outfile.last_row.fridge_on
                                      THEN _lbs_co2_from_moer(outfile.last_row.moer)
                                      ELSE 0

\* C8 witness: a full run is over in which the device ran on a non-zero signal and
\* whose last row was written with the device off.
C8_Witness ==
    /\ pc = "idle"
    /\ result = outfile.name
    /\ outfile.nrows = DataLen
    /\ total_lbs_co2 > 0
    /\ ~outfile.last_row.fridge_on
    /\ outfile.last_row.moer > 0

\* C9: in every step exactly one tier acts, in fixed priority: the zero-signal tier
\* when use_zeroes is enabled and the signal is zero (the optimizer is then not
\* invoked), else the optimizer's s[0] when use_forecast is enabled, else the naive
\* threshold rule; and the status after the step is the one that tier decides.
C9_ExactlyOneTier ==
    [][(pc = "running" /\ InLoop(timestep, number_timesteps_to_process)) =>
         LET moer == np_moer_vector[timestep + 1]
             expected == fridge.current_temp
                           + mins_per_timestep * (IF fridge.on THEN COOLING_RATE
                                                               ELSE WARMING_RATE)
             solve == _get_next_decision_with_lp(np_moer_vector, hist_avg_moer_at_time,
                                                 historicals, fridge, timestep,
                                                 flags.use_hist)
         IN  IF flags.use_zeroes /\ moer = 0
             THEN /\ tiers' = {"zero"}
                  /\ lp_status' = "NotSolved"
                  /\ fridge'.on = (expected > MIN_TEMP)
             ELSE IF flags.use_forecast
             THEN /\ tiers' = {"forecast"}
                  /\ lp_status' = solve.status
                  /\ (IF fridge'.on THEN 1 ELSE 0) \in solve.s_0
             ELSE /\ tiers' = {"naive"}
                  /\ lp_status' = "NotSolved"
                  /\ fridge'.on = IF expected <= MIN_TEMP THEN FALSE
                                  ELSE IF expected >= MAX_TEMP THEN TRUE
                                  ELSE fridge.on]_vars

\* C9 witness: with both tiers enabled the zero-signal tier acted and the optimizer was
\* not invoked, in a run in which the optimizer had acted before.
C9_Witness ==
    /\ pc = "running"
    /\ flags.use_zeroes /\ flags.use_forecast
    /\ timestep > 1
    /\ tiers = {"zero"}
    /\ lp_status = "NotSolved"
    /\ np_moer_vector[timestep - 1] > 0

\* the run is over: every row is written, the file is closed, the run identifier returned
RunCompleted ==
    /\ pc = "idle"
    /\ result = _get_output_filename(flags.use_zeroes, flags.use_forecast, flags.use_hist)
    /\ outfile.name = result
    /\ outfile.closed
    /\ outfile.nrows = number_timesteps_to_process
    /\ timestep = number_timesteps_to_process
    /\ current_time = number_timesteps_to_process * mins_per_timestep

\* C10: a run that starts eventually finishes, having written exactly number_of_steps
\* rows, one per step in increasing time order, advanced the clock to number_of_steps
\* times the step duration, closed the output file and returned the run identifier.
C10_RunTerminates ==
    /\ [](outfile.nrows > 0 =>
             outfile.last_row.time = (outfile.nrows - 1) * mins_per_timestep)
    /\ [](outfile.nrows <= number_timesteps_to_process)
    /\ (pc = "running") ~> RunCompleted

\* C10 witness: a run over the whole table with the forecast tier has completed.
C10_Witness ==
    /\ RunCompleted
    /\ number_timesteps_to_process = DataLen
    /\ flags.use_forecast

\* the rows among the first k that have time slot s: rows of consecutive 5-minute
\* steps share a slot when they are whole days apart
ObservedAt(s, k) ==
    {r \in {s + timesteps_per_day * d : d \in 0 .. (k \div timesteps_per_day)} :
        r < k /\ timeslotID(r) = s}

RECURSIVE SumMoer(_)
SumMoer(rows) ==
    IF rows = {} THEN 0
    ELSE LET r == CHOOSE x \in rows : TRUE
         IN  np_moer_vector[r + 1] + SumMoer(rows \ {r})

\* the arithmetic mean of the signal over a non-empty set of rows
MeanMoer(rows) == Frac(SumMoer(rows), Cardinality(rows))

\* C11: after steps 0..k of a run the historical table holds, for every time slot that
\* occurred among those steps, the arithmetic mean of the signal at exactly those steps
\* and their number; slots that have not occurred are absent.
C11_TrackerIsRunningMean ==
    pc = "running"
        => /\ DOMAIN historicals = {timeslotID(r) : r \in 0 .. timestep - 1}
           /\ \A s \in DOMAIN historicals :
                  LET rows == ObservedAt(s, timestep)
                  IN  /\ rows # {}
                      /\ historicals[s] = <<MeanMoer(rows), Cardinality(rows)>>

\* C11 witness: a slot has been observed three times, with values that differ, and
\* another slot twice.
C11_Witness ==
    /\ pc = "running"
    /\ timestep = 2 * timesteps_per_day + 1
    /\ historicals[0][2] = 3
    /\ historicals[0][1] \notin {<<0, 1>>, <<1, 1>>}
    /\ historicals[1][2] = 2

\* the configurations run() accepts
ValidFlags == {f \in Flags : ~ConfigError(f.use_forecast, f.use_hist)}

OutputFilenameOf(f) == _get_output_filename(f.use_zeroes, f.use_forecast, f.use_hist)

\* C12: the six valid flag combinations (the four of the "all" sweep among them) yield
\* pairwise distinct output filenames, and the plot destinations the visualizer derives
\* from those filenames are pairwise distinct as well: the filename a run returns, and
\* the plot destination derived from it, differ from those of every other valid
\* combination.
C12_RunIdentifiersDistinct ==
    result \notin {NoResult, Raised}
        => /\ result = OutputFilenameOf(flags)
           /\ \A g \in ValidFlags \ {flags} :
                  /\ result # OutputFilenameOf(g)
                  /\ PlotPath(result) # PlotPath(OutputFilenameOf(g))

\* C12 witness: the zero-tier run has returned its filename, and its plot goes to the
\* name the strip calls of the visualizer leave of it.
C12_Witness ==
    /\ pc = "idle"
    /\ flags = [NoFlags EXCEPT !.use_zeroes = TRUE]
    /\ result = <<".", "/", "o", "u", "t", "p", "u", "t", "_", "d", "a", "t", "a", "/", "s", "i", "m", "_", "o", "u", "t", "p", "u", "t", "_", "z", "e", "r", "o", "e", "s", ".", "c", "s", "v">>
    /\ PlotPath(result) = <<".", "/", "o", "u", "t", "p", "u", "t", "_", "d", "a", "t", "a", "/", "p", "l", "o", "t", "s", "_", "z", "e", "r", "o", "e", ".", "p", "d", "f">>

\* the zero-signal tier is about to decide in this state
ZeroTierNow ==
    /\ pc = "running"
    /\ InLoop(timestep, number_timesteps_to_process)
    /\ ZeroTierApplies(flags.use_zeroes, np_moer_vector[timestep + 1])

\* C13: in every step where use_zeroes is enabled, the signal is zero and the one-step
\* temperature with the device on is strictly above MIN_TEMP, the decision is "on",
\* whatever the device's status before the step.
C13_ZeroTierOnWhenSafe ==
    [][(ZeroTierNow /\ fridge.current_temp + COOLING_RATE * mins_per_timestep > MIN_TEMP)
         => /\ fridge'.on
            /\ outfile'.last_row.fridge_on
            /\ tiers' = {"zero"}]_vars

\* C13 witness: the zero-signal tier has turned the device on in a step in which that
\* was safe: the temperature committed with the device on is above MIN_TEMP.
C13_Witness ==
    /\ pc = "running"
    /\ tiers = {"zero"}
    /\ fridge.on
    /\ outfile.last_row.fridge_on
    /\ fridge.current_temp > MIN_TEMP

\* a run without the zero-signal and forecast tiers of 3 steps over the signal [1,1,1]
ScenarioA ==
    /\ flags = NoFlags
    /\ number_timesteps_to_process = 3
    /\ \A i \in 1 .. 3 : np_moer_vector[i] = 1

\* C14: scenario A (3 steps, signal [1,1,1], zero-signal and forecast tiers disabled,
\* start at 33 with the device off) keeps the device off in all 3 steps, adds nothing
\* to the cumulative total, and ends with temperature 34.25 and clock 15 minutes.
C14_ScenarioA ==
    /\ (ScenarioA /\ pc = "running")
          => /\ ~fridge.on
             /\ outfile.nrows > 0 => ~outfile.last_row.fridge_on
             /\ total_lbs_co2 = 0
    /\ (ScenarioA /\ pc = "idle" /\ result = OutputFilenameOf(NoFlags))
          => /\ ~fridge.on
             /\ outfile.nrows = 3
             /\ ~outfile.last_row.fridge_on
             /\ total_lbs_co2 = 0
             /\ 4 * fridge.current_temp = 137 * TempUnit
             /\ current_time = 15

\* C14 witness: scenario A has run to its end.
C14_Witness ==
    /\ ScenarioA
    /\ pc = "idle"
    /\ result = OutputFilenameOf(NoFlags)
    /\ outfile.closed
    /\ outfile.nrows = 3
    /\ timestep = 3

\* the optimizer is about to solve over a window extended by historical averages
SolvesWithHistNow == SolvesNow /\ flags.use_hist

\* the historical averages the optimizer of step j appends to its raw window: entry e
\* is the column's entry at index j + lookahead_window + e - 1
HistExtension(j) ==
    LET fv == ForecastVector(np_moer_vector, hist_avg_moer_at_time, historicals, j, TRUE)
        raw == Len(Slice(np_moer_vector, j, j + lookahead_window))
    IN  SubSeq(fv, raw + 1, Len(fv))

\* the rows of row x's time slot that lie at least a day before x
PastRows(x) == ObservedAt(timeslotID(x), x - timesteps_per_day + 1)

\* C15: every historical average the optimizer consumes at step j (column entries
\* j+H .. j+H+E-1) was computed only from observations of steps strictly earlier than
\* j: it is the mean of the signal at the earlier rows of the entry's time slot, all of
\* them before j, or the column's initial 0 where no average was written.
C15_ExtensionIsCausal ==
    SolvesWithHistNow
        => LET ext == HistExtension(timestep)
           IN  \A e \in 1 .. Len(ext) :
                   LET x == timestep + lookahead_window + e - 1
                   IN  /\ \A r \in PastRows(x) : r < timestep
                       /\ ext[e] = IF PastRows(x) # {} /\ x < number_timesteps_to_process
                                   THEN MeanMoer(PastRows(x))
                                   ELSE <<0, 1>>

\* C15 witness: the optimizer is about to consume an average that was written a day
\* ahead by an earlier step, and that average is not 0.
C15_Witness ==
    /\ SolvesWithHistNow
    /\ timestep > timesteps_per_day
    /\ Len(HistExtension(timestep)) = 1
    /\ HistExtension(timestep)[1] = <<1, 1>>

\* column entry x holds a value written a day ahead by a step already executed: step
\* x - timesteps_per_day has run, and its write passed the test of line 219
WrittenAhead(x) ==
    /\ x - timesteps_per_day >= 0
    /\ x - timesteps_per_day < timestep
    /\ x < number_timesteps_to_process

\* C16: a value written by step i into the historical-average column at index
\* i + timesteps_per_day is never read, neither by the optimizer's extension window nor
\* by the output record, during a step whose index is smaller than
\* i + timesteps_per_day.
C16_WriteAheadNotReadEarly ==
    /\ SolvesWithHistNow
          => \A e \in 1 .. Len(HistExtension(timestep)) :
                 LET x == timestep + lookahead_window + e - 1
                 IN  WrittenAhead(x) => timestep >= x
    /\ (pc = "running" /\ outfile.nrows > 0)
          => outfile.last_row.avg_moer_at_time = hist_avg_moer_at_time[outfile.nrows]

\* C17: in a run with use_hist enabled, for every step count up to the data length,
\* every value appended to the optimizer's forecast vector as historical extension at
\* step j is the running mean of at least one earlier observation of that entry's time
\* slot; the optimizer never consumes the unset default 0 of the column.
C17_ExtensionValuesAreAverages ==
    SolvesWithHistNow
        => LET ext == HistExtension(timestep)
           IN  \A e \in 1 .. Len(ext) :
                   LET x == timestep + lookahead_window + e - 1
                   IN  /\ WrittenAhead(x)
                       /\ PastRows(x) # {}
                       /\ ext[e] = MeanMoer(PastRows(x))

\* C18: in every step the temperature commit and the clock advance come before the
\* step's output record is appended, so the record of a step carries the clock and the
\* temperature that the step has committed.
C18_RecordAfterCommit ==
    (pc = "running" /\ outfile.nrows > 0)
        => /\ outfile.last_row.time = current_time
           /\ outfile.last_row.fridge_temp = RoundedTemp(fridge.current_temp)

---------------------------------------------------------------------------
(* The extended optimizer on its own: _get_next_decision_with_lp with use_historicals
   at a step in the first lookahead window of any of the days 0 .. ExtDays of a run
   with use_forecast and use_hist over a table of ExtDays days and two lookahead
   windows.  The historical table and column are those the steps before it have left:
   the means of the rows processed so far, and the past means written a day ahead. *)

ExtLen == ExtDays * timesteps_per_day + 2 * lookahead_window

InitExt ==
    /\ \E p \in [1 .. PatLen -> MoerValues] : np_moer_vector = MoerColumn(p, ExtLen)
    /\ number_timesteps_to_process \in {ExtLen - 1, ExtLen}
    /\ \E d \in 0 .. ExtDays, i \in 0 .. lookahead_window - 1 :
           timestep = d * timesteps_per_day + i
    /\ historicals =
           [s \in {timeslotID(r) : r \in 0 .. Min(timestep, timesteps_per_day) - 1} |->
               <<MeanMoer(ObservedAt(s, timestep)), Cardinality(ObservedAt(s, timestep))>>]
    /\ hist_avg_moer_at_time =
           [i \in 1 .. ExtLen |->
               IF WrittenAhead(i - 1) THEN MeanMoer(PastRows(i - 1)) ELSE <<0, 1>>]
    /\ current_time = timestep * mins_per_timestep
    /\ \E t \in {MIN_TEMP, MAX_TEMP} :
           fridge = [on |-> FALSE, current_temp |-> t, current_timestamp |-> current_time]
    /\ total_lbs_co2 = 0
    /\ outfile = NoOutfile
    /\ pc = "ext"
    /\ flags = [NoFlags EXCEPT !.use_forecast = TRUE, !.use_hist = TRUE]
    /\ result = NoResult
    /\ tiers = {}
    /\ lp_status = "NotSolved"

\* lines 61-65 at this step
SolveExt ==
    /\ pc = "ext"
    /\ lp_status = "NotSolved"
    /\ LET solve == _get_next_decision_with_lp(np_moer_vector, hist_avg_moer_at_time,
                                               historicals, fridge, timestep,
                                               flags.use_hist)
       IN  /\ lp_status' = solve.status
           /\ \E decision \in solve.s_0 : fridge' = ForecastTierDecision(fridge, decision)
    /\ tiers' = {"forecast"}
    /\ UNCHANGED <<np_moer_vector, hist_avg_moer_at_time, number_timesteps_to_process,
                   historicals, total_lbs_co2, current_time, outfile, pc, flags, timestep,
                   result>>

NextExt == SolveExt

SpecExt == InitExt /\ [][NextExt]_vars

\* the sample count stored for the time slot of step j
SlotCount(j) ==
    IF timeslotID(j) \in DOMAIN historicals THEN historicals[timeslotID(j)][2] ELSE 0

\* C19: at every step j of a run with use_hist enabled the number E of historical
\* values appended to the raw lookahead window is at most min(count, 6), count being
\* the sample count stored for step j's own time slot; E = 0 throughout the first day,
\* and the number of binary decision variables never exceeds lookahead_window + 6.
C19_ExtensionGatedByCount ==
    (pc = "ext" \/ SolvesWithHistNow)
        => LET E == Len(HistExtension(timestep))
               count == SlotCount(timestep)
           IN  /\ E <= Min(count, 6)
               /\ timestep < timesteps_per_day => (count = 0 /\ E = 0)
               /\ Len(ForecastVector(np_moer_vector, hist_avg_moer_at_time, historicals,
                                      timestep, TRUE)) <= lookahead_window + 6

\* C19 witness: the optimizer has solved a step whose slot holds seven samples, over
\* the twelve rows of the raw window and six historical averages.
C19_Witness ==
    /\ pc = "ext"
    /\ lp_status = "Optimal"
    /\ SlotCount(timestep) = 7
    /\ Len(HistExtension(timestep)) = 6
    /\ HistExtension(timestep)[6] \notin {<<0, 1>>, <<1, 1>>}

\* C20: the historical-average field of the output record of step j is the arithmetic
\* mean of the signal at steps j - timesteps_per_day, j - 2*timesteps_per_day, ..., and
\* 0 when j < timesteps_per_day; it never includes step j's own signal value.
C20_LoggedAverageIsPastMean ==
    (pc = "running" /\ outfile.nrows > 0)
        => LET j == outfile.nrows - 1
               rows == PastRows(j)
           IN  /\ j \notin rows
               /\ rows = {r \in 0 .. j - 1 : timeslotID(r) = timeslotID(j)}
               /\ outfile.last_row.avg_moer_at_time =
                      IF j < timesteps_per_day THEN <<0, 1>> ELSE MeanMoer(rows)

\* C20 witness: a record of the third day carries the mean of the two values its time
\* of day had on the days before, and the step's own value is not that mean.
C20_Witness ==
    /\ pc = "running"
    /\ outfile.nrows > 2 * timesteps_per_day
    /\ outfile.last_row.avg_moer_at_time = <<1, 2>>
    /\ Cardinality(PastRows(outfile.nrows - 1)) = 2

\* the column after the steps before timestep: the past means where a step has written
\* them a day ahead, the initial 0 elsewhere
HistColumnIsPastMeans ==
    pc = "running"
        => \A x \in 0 .. Len(hist_avg_moer_at_time) - 1 :
               hist_avg_moer_at_time[x + 1] =
                   IF WrittenAhead(x) THEN MeanMoer(PastRows(x)) ELSE <<0, 1>>

\* the naive tier is about to decide in this state
NaiveTierNow ==
    /\ pc = "running"
    /\ InLoop(timestep, number_timesteps_to_process)
    /\ ~ZeroTierApplies(flags.use_zeroes, np_moer_vector[timestep + 1])
    /\ ~flags.use_forecast

\* C21: expected_temp leaves status, temperature and clock of the device unchanged
\* however often it is called; turn_on and turn_off change only the status; and a step
\* decided by the naive tier with the one-step projection strictly between MIN_TEMP
\* and MAX_TEMP leaves the status unchanged.  So the temperature a step commits is the
\* temperature before the step advanced by one step under the status decided, the
\* projection of line 50 and the status calls having left it alone.
C21_ThermalFrame ==
    /\ [](/\ turn_on(fridge) = [on |-> TRUE, current_temp |-> fridge.current_temp,
                                 current_timestamp |-> fridge.current_timestamp]
          /\ turn_off(fridge) = [on |-> FALSE, current_temp |-> fridge.current_temp,
                                  current_timestamp |-> fridge.current_timestamp]
          /\ expected_temp(turn_on(fridge), fridge.current_timestamp) = fridge.current_temp
          /\ expected_temp(turn_off(fridge), fridge.current_timestamp) = fridge.current_temp)
    /\ [][(pc = "running" /\ timestep' = timestep + 1)
            => /\ fridge'.current_temp =
                      fridge.current_temp
                          + mins_per_timestep * _current_rate_temp_change(fridge')
               /\ fridge'.current_timestamp = fridge.current_timestamp + mins_per_timestep]_vars
    /\ [][(/\ NaiveTierNow
            /\ expected_temp(fridge, current_time + mins_per_timestep) > MIN_TEMP
            /\ expected_temp(fridge, current_time + mins_per_timestep) < MAX_TEMP)
            => fridge'.on = fridge.on]_vars

\* C21 witness: the naive tier has left a running device running: its projection was
\* strictly between the bounds (a device the tier had just turned on would be within
\* 15/12 F of MAX_TEMP).
C21_Witness ==
    /\ pc = "running"
    /\ tiers = {"naive"}
    /\ fridge.on
    /\ fridge.current_temp > MIN_TEMP
    /\ fridge.current_temp < MAX_TEMP - 15

====
